---- MODULE Spec2Model ----
(***************************************************************************)
(* A model of logreader.py (wwarne/logsreader): the timestamp conversion,  *)
(* the two storage connectors (PostgresConnector, SqliteConnector), the    *)
(* line classifier of the authorization log, and the 'parse' run with its  *)
(* apt-history transaction scanner.                                        *)
(*                                                                         *)
(* Text is modelled as a sequence of lexemes ("atoms"): a Python str is a  *)
(* sequence of atoms, the blank " " and the line break "\n" being atoms of *)
(* their own.  An atom is indivisible; the date/time lexemes stand for a   *)
(* whole date text such as "Jul  4 18:07:48".  Time is counted in hours.   *)
(***************************************************************************)
EXTENDS Integers, Sequences, FiniteSets, TLC

VARIABLES
    year,       \* the calendar year of the host clock (datetime.now())
    localzone,  \* the host's local zone: get_localzone() and the C library's zone
    catalog,    \* which tables named events the two databases hold
    pg,         \* rows of the PostgreSQL table events, in insertion order
    sq,         \* the SqliteConnector: its table rows and self.server_timezone
    call,       \* the last connector call and what each backend did with it
    cls,        \* the last line classified and the classifier's result
    run         \* the 'parse' run: position in the script, files, loop variables

vars == <<year, localzone, catalog, pg, sq, call, cls, run>>

(***************************************************************************)
(* Bounds of the model.                                                    *)
(***************************************************************************)
MaxRows == 3
MaxYears == 1

(***************************************************************************)
(* Python values.                                                          *)
(***************************************************************************)
SP == " "
NL == "\n"

\* None in a slot that holds text, and a str
PyNone == [t |-> "None", v |-> <<>>]
PyStr(s) == [t |-> "str", v |-> s]
\* None in a slot that holds a time, an aware UTC datetime, and a float timestamp
NoTime == [t |-> "None", v |-> 0]
PyDatetime(n) == [t |-> "datetime", v |-> n]
PyFloat(n) == [t |-> "float", v |-> n]

\* TYPES
AUTH_KEY == 1
AUTH_PASSWORD == 2
AUTH_FAILED == 3
SUDO_COMMAND == 4
INSTALL_PACKAGE == 5
REMOVE_PACKAGE == 6

\* Event = namedtuple('Event', ['date', 'type', 'username', 'user_ip', 'details'])
Event(date, type, username, user_ip, details) ==
    [date |-> date, type |-> type, username |-> username,
     user_ip |-> user_ip, details |-> details]

(***************************************************************************)
(* Time zones (pytz) at a fixed offset, in hours east of UTC.              *)
(***************************************************************************)
NoTz == "None"
OUTPUT_TIMEZONE == "Europe/Moscow"
Zones == {"UTC", "Europe/Moscow", "America/New_York"}

UtcOffset(tz) ==
    CASE tz = "UTC" -> 0
      [] tz = "Europe/Moscow" -> 3
      [] tz = "America/New_York" -> 0 - 5

HoursPerYear == 365 * 24

(***************************************************************************)
(* dateutil.parser.parse.  The date lexemes and what they denote: the year *)
(* (absent in the authorization log's "Jul  4 18:07:48") and the hour of   *)
(* that year.  A field the text leaves out is taken from the host clock.   *)
(***************************************************************************)
DateAtoms == {"Jul  4 18:07:48", "Jul  4 19:58:30", "2016-04-07  19:25:28",
              "2016-04-08  11:02:13", "2016-07-04 18:00"}

HasYear(a) == a \in {"2016-04-07  19:25:28", "2016-04-08  11:02:13", "2016-07-04 18:00"}

YearOf(a) == 2000 + 16

HourOfYear(a) ==
    CASE a = "Jul  4 18:07:48" -> 184 * 24 + 18
      [] a = "Jul  4 19:58:30" -> 184 * 24 + 19
      [] a = "2016-04-07  19:25:28" -> 97 * 24 + 19
      [] a = "2016-04-08  11:02:13" -> 98 * 24 + 11
      [] a = "2016-07-04 18:00" -> 184 * 24 + 18

\* str.strip() of the blanks and line breaks the parser skips
RECURSIVE Strip(_)
Strip(s) ==
    IF s = <<>> THEN <<>>
    ELSE IF Head(s) \in {SP, NL} THEN Strip(Tail(s))
    ELSE IF s[Len(s)] \in {SP, NL} THEN Strip(SubSeq(s, 1, Len(s) - 1))
    ELSE s

\* dateutil.parser.parse(date_string): a naive datetime (hours since year 0), or
\* ValueError for a text that holds no date
Parse(date_string, yr) ==
    LET s == Strip(date_string) IN
    IF Len(s) = 1 /\ s[1] \in DateAtoms
    THEN [raised |-> "", naive |-> (IF HasYear(s[1]) THEN YearOf(s[1]) ELSE yr) * HoursPerYear
                                      + HourOfYear(s[1])]
    ELSE [raised |-> "ValueError", naive |-> 0]

\* naive wall-clock time of zone tz as the UTC instant: tz.localize(d).astimezone(UTC)
LocalizeToUtc(naive, tz) == naive - UtcOffset(tz)

convert_str_to_utc_datetime(date_string, from_timezone, host, yr) ==
    LET server_timezone == IF from_timezone = NoTz THEN host ELSE from_timezone
        event_date == Parse(date_string, yr)
    IN  IF event_date.raised = "ValueError"
        THEN NoTime
        ELSE PyDatetime(LocalizeToUtc(event_date.naive, server_timezone))

(***************************************************************************)
(* str(data) of the tuple prepare_data builds, and its MD5 digest.  repr   *)
(* quotes a str and writes None bare.  The digest is kept symbolic: MD5 is *)
(* taken to be free of collisions on the texts hashed here.                *)
(***************************************************************************)
Repr(x) ==
    CASE x.t = "None" -> <<"None">>
      [] x.t = "str" -> <<"'">> \o x.v \o <<"'">>
      [] x.t = "datetime" -> <<"datetime.datetime(", ToString(x.v), ", tzinfo=<UTC>)">>
      [] x.t = "float" -> <<ToString(x.v), ".0">>

\* a fingerprint text that leaves the details out
StrOfDataWithoutDetails(data) ==
    <<"(">> \o Repr(data[1]) \o <<", ">> \o <<ToString(data[2])>> \o <<", ">> \o Repr(data[3])
        \o <<", ">> \o Repr(data[4]) \o <<")">>

StrOfData(data) ==
    <<"(">> \o Repr(data[1]) \o <<", ">> \o <<ToString(data[2])>> \o <<", ">> \o Repr(data[3])
        \o <<", ">> \o Repr(data[4]) \o <<", ">> \o Repr(data[5]) \o <<")">>

Md5Hexdigest(text) == [md5 |-> text]

(***************************************************************************)
(* check_tables_exists.  The catalog says which tables named events there  *)
(* are: pg_events, the one the connection's statements resolve to;         *)
(* pg_elsewhere, one in another schema of the same database (listed by     *)
(* information_schema.tables, which the lookup does not narrow to a        *)
(* schema); sq_events, the one of system_events.sqlite.                    *)
(***************************************************************************)
Catalogs == [pg_events : BOOLEAN, pg_elsewhere : BOOLEAN, sq_events : BOOLEAN]
NoTables == [pg_events |-> FALSE, pg_elsewhere |-> FALSE, sq_events |-> FALSE]
AllTables == [pg_events |-> TRUE, pg_elsewhere |-> FALSE, sq_events |-> TRUE]

\* CREATE TABLE events with no lookup before it
PostgresCreateTableUnchecked(cat, rows) ==
    IF cat.pg_events
    THEN [catalog |-> cat, rows |-> rows, raised |-> "ProgrammingError"]
    ELSE [catalog |-> [cat EXCEPT !.pg_events = TRUE], rows |-> <<>>, raised |-> ""]

\* PostgresConnector.check_tables_exists: SELECT EXISTS (... WHERE table_name='events'),
\* and CREATE TABLE events when the answer is false
PostgresCheckTablesExists(cat, rows) ==
    IF ~(cat.pg_events \/ cat.pg_elsewhere)
    THEN [catalog |-> [cat EXCEPT !.pg_events = TRUE], rows |-> <<>>, raised |-> ""]
    ELSE [catalog |-> cat, rows |-> rows, raised |-> ""]

\* SqliteConnector.check_tables_exists: CREATE TABLE IF NOT EXISTS events
SqliteCheckTablesExists(cat, rows) ==
    IF ~cat.sq_events
    THEN [catalog |-> [cat EXCEPT !.sq_events = TRUE], rows |-> <<>>, raised |-> ""]
    ELSE [catalog |-> cat, rows |-> rows, raised |-> ""]

(***************************************************************************)
(* PostgresConnector.                                                      *)
(***************************************************************************)
\* a row of the table events (the serial id is the row's place in the sequence)
Row(data) ==
    [event_time |-> data[1], event_type |-> data[2], event_user |-> data[3],
     user_ip |-> data[4], description |-> data[5], event_hash |-> data[6]]

\* texts the column type inet accepts
InetAtoms == {"192.168.1.6", "91.215.191.84"}
ValidInet(x) == x.t = "None" \/ (Len(x.v) = 1 /\ x.v[1] \in InetAtoms)

PostgresPrepareData(event_data, host, yr) ==
    LET data == <<convert_str_to_utc_datetime(event_data.date, NoTz, host, yr),
                  event_data.type, event_data.username, event_data.user_ip,
                  event_data.details>>
        data_hash == Md5Hexdigest(StrOfData(data))
    IN  data \o <<data_hash>>

\* an INSERT that knows no conflict: the table without its UNIQUE constraint
PostgresInsertWithoutUnique(rows, new_data) ==
    IF new_data[1].t = "None" THEN "error"
    ELSE IF ~ValidInet(new_data[4]) THEN "error"
    ELSE "ok"

\* the INSERT of PostgresConnector.save against the table's constraints:
\* "error" (a constraint is violated), "conflict" (ON CONFLICT DO NOTHING) or "ok"
PostgresInsertOutcome(rows, new_data) ==
    IF new_data[1].t = "None" THEN "error"           \* event_time ... NOT NULL
    ELSE IF ~ValidInet(new_data[4]) THEN "error"     \* user_ip inet
    ELSE IF \E i \in 1..Len(rows) : rows[i].event_hash = new_data[6]
         THEN "conflict"                            \* event_hash uuid UNIQUE
    ELSE "ok"

\* a save without its except clause: the INSERT's error escapes
PostgresSaveWithoutExcept(rows, event_data, host, yr) ==
    LET new_data == PostgresPrepareData(event_data, host, yr)
        outcome == PostgresInsertOutcome(rows, new_data)
    IN  IF outcome = "ok"
        THEN [rows |-> Append(rows, Row(new_data)), raised |-> "", outcome |-> outcome]
        ELSE [rows |-> rows, raised |-> IF outcome = "error" THEN "Error" ELSE "",
              outcome |-> outcome]

\* a save that replaces the row of a fingerprint already stored
PostgresSaveReplacing(rows, event_data, host, yr) ==
    LET new_data == PostgresPrepareData(event_data, host, yr)
        outcome == PostgresInsertOutcome(rows, new_data)
        others == SelectSeq(rows, LAMBDA r : r.event_hash # new_data[6])
    IN  IF outcome = "error"
        THEN [rows |-> rows, raised |-> "", outcome |-> outcome]
        ELSE [rows |-> Append(others, Row(new_data)), raised |-> "", outcome |-> outcome]

\* PostgresConnector.save: the rows afterwards and the exception that escapes
PostgresSave(rows, event_data, host, yr) ==
    LET new_data == PostgresPrepareData(event_data, host, yr)
        outcome == PostgresInsertOutcome(rows, new_data)
    IN  IF outcome = "ok"
        THEN [rows |-> Append(rows, Row(new_data)), raised |-> "", outcome |-> outcome]
        ELSE [rows |-> rows, raised |-> "", outcome |-> outcome]   \* no-op, or rollback

\* a query that leaves the ORDER BY clause out
Unordered(rows, S) ==
    {f \in [1..Cardinality(S) -> S] : \A i, j \in 1..Cardinality(S) : i # j => f[i] # f[j]}

\* the arrangements of the set S of row numbers that ORDER BY event_time ASC allows
\* (rows of equal event_time come in any order)
OrderedBy(rows, S) ==
    {f \in [1..Cardinality(S) -> S] :
        /\ \A i, j \in 1..Cardinality(S) : i # j => f[i] # f[j]
        /\ \A i \in 1..Cardinality(S) - 1 :
               rows[f[i]].event_time.v <= rows[f[i + 1]].event_time.v}

\* SELECT event_time, event_type, event_user, user_ip, description
Selected(r) == <<r.event_time, r.event_type, r.event_user, r.user_ip, r.description>>

\* `if date_filter:` a str that is not empty
Truthy(x) == x.t = "str" /\ x.v # <<>>

\* PostgresConnector.get_events: the sequences of records the call may yield
PostgresGetEvents(rows, date_filter, timezone, host, yr) ==
    LET param == convert_str_to_utc_datetime(date_filter.v, timezone, host, yr)
        S == IF Truthy(date_filter)
             THEN {i \in 1..Len(rows) :
                      param.t # "None" /\ rows[i].event_time.v >= param.v}
             ELSE 1..Len(rows)
    IN  {[i \in 1..Cardinality(S) |-> Selected(rows[f[i]])] : f \in OrderedBy(rows, S)}

(***************************************************************************)
(* SqliteConnector: self is [rows, server_timezone].                       *)
(***************************************************************************)
\* convert_string_to_timestamp_utc(self, date_string, from_timezone):
\* time.mktime reads the localized time's wall-clock fields in the host's zone
SqliteConvertStringToTimestampUtc(self, date_string, from_timezone, host, yr) ==
    LET event_date == Parse(date_string, yr)
        tz == IF from_timezone # NoTz THEN from_timezone ELSE self.server_timezone
    IN  IF event_date.raised # ""
        THEN [raised |-> event_date.raised, value |-> NoTime, self |-> self]
        ELSE [raised |-> "", value |-> PyFloat(event_date.naive - UtcOffset(host)),
              self |-> [self EXCEPT !.server_timezone = tz]]

\* convert_timestamp_to_utc_datetime
SqliteConvertTimestampToUtcDatetime(timestamp_data) == PyDatetime(timestamp_data.v)

\* SqliteConnector.prepare_data calls convert_string_to_timestamp_utc(event_data.date),
\* one argument for the two the method requires: the call raises TypeError
SqlitePrepareData(self, event_data, host, yr) ==
    [raised |-> "TypeError", data |-> <<>>, self |-> self]

\* SqliteConnector.save: prepare_data runs before the try block
SqliteSave(self, event_data, host, yr) ==
    LET p == SqlitePrepareData(self, event_data, host, yr) IN
    IF p.raised # ""
    THEN [self |-> p.self, raised |-> p.raised]
    ELSE [self |-> [p.self EXCEPT !.rows = Append(p.self.rows, Row(p.data))],
          raised |-> ""]                             \* the table has no constraint to violate

\* SqliteConnector.get_events
SqliteGetEvents(self, date_filter, timezone, host, yr) ==
    LET c == SqliteConvertStringToTimestampUtc(self, date_filter.v, timezone, host, yr)
        rows == self.rows
    IN  IF Truthy(date_filter) /\ c.raised # ""
        THEN [raised |-> c.raised, results |-> {<<>>}, self |-> self]
        ELSE LET S == IF Truthy(date_filter)
                      THEN {i \in 1..Len(rows) : rows[i].event_time.v >= c.value.v}
                      ELSE 1..Len(rows)
             IN  [raised |-> "",
                  results |-> {[i \in 1..Cardinality(S) |->
                                  <<SqliteConvertTimestampToUtcDatetime(rows[f[i]].event_time)>>
                                      \o Tail(Selected(rows[f[i]]))] : f \in OrderedBy(rows, S)},
                  self |-> IF Truthy(date_filter) THEN c.self ELSE self]

(***************************************************************************)
(* Events the classifier and the apt-history scanner hand to save.         *)
(***************************************************************************)
warner == PyStr(<<"warner">>)
root == PyStr(<<"root">>)
PortNote == <<"port", SP, "19399", SP>>

EventSet ==
    { Event(<<"Jul  4 18:07:48">>, AUTH_PASSWORD, warner, PyStr(<<"192.168.1.6">>), PyStr(PortNote)),
      Event(<<"Jul  4 18:07:48">>, AUTH_FAILED, warner, PyStr(<<"192.168.1.6">>), PyNone),
      Event(<<"Jul  4 19:58:30">>, AUTH_FAILED, root, PyStr(<<"91.215.191.84">>), PyNone),
      Event(<<"Jul  4 19:58:30">>, AUTH_FAILED, root, PyStr(<<"gateway.lan">>), PyNone),
      Event(<<"2016-04-07  19:25:28", NL>>, INSTALL_PACKAGE, root, PyNone, PyStr(<<"fish">>)),
      Event(<<"2016-04-07  19:25:28", NL>>, INSTALL_PACKAGE, root, PyNone, PyStr(<<"vim">>)),
      Event(<<NL>>, REMOVE_PACKAGE, root, PyNone, PyStr(<<"vim">>)) }

NoEvent == Event(<<>>, 0, PyNone, PyNone, PyNone)

\* the values of `show --date`, and the zones a caller passes
DateFilters == {PyNone, PyStr(<<"2016-07-04 18:00">>), PyStr(<<"Jul  4 19:58:30">>),
                PyStr(<<"yesterday">>)}
CallerZones == {NoTz, OUTPUT_TIMEZONE}

Years == (2000 + 16) .. (2000 + 16 + MaxYears)

NoCall ==
    [op |-> "none", event |-> NoEvent, date_filter |-> PyNone, timezone |-> NoTz,
     pgRaised |-> "", sqRaised |-> "", pgOutcome |-> "", pgData |-> <<>>,
     pgBefore |-> <<>>, sqBefore |-> <<>>, pgResult |-> <<>>, sqResult |-> <<>>,
     catalogBefore |-> AllTables, pgParam |-> NoTime, sqParam |-> NoTime]

NoCls == [line |-> <<>>, event |-> NoEvent, found |-> FALSE]
NoRun == [pc |-> "none"]

(***************************************************************************)
(* The connectors under a sequence of save and get_events calls; each call *)
(* is made on a PostgresConnector and on a SqliteConnector alike.          *)
(***************************************************************************)
InitStore ==
    /\ year \in Years
    /\ localzone \in Zones
    /\ catalog = AllTables
    /\ pg = <<>>
    /\ sq = [rows |-> <<>>, server_timezone |-> localzone]
    /\ call = NoCall
    /\ cls = NoCls
    /\ run = NoRun

CallSave(e) ==
    LET p == PostgresSave(pg, e, localzone, year)
        s == SqliteSave(sq, e, localzone, year)
    IN  /\ Len(pg) < MaxRows
        /\ pg' = p.rows
        /\ sq' = s.self
        /\ call' = [NoCall EXCEPT !.op = "save", !.event = e,
                                  !.pgRaised = p.raised, !.sqRaised = s.raised,
                                  !.pgOutcome = p.outcome,
                                  !.pgData = PostgresPrepareData(e, localzone, year),
                                  !.pgBefore = pg, !.sqBefore = sq.rows]
        /\ UNCHANGED <<year, localzone, catalog, cls, run>>

CallGetEvents(date_filter, timezone) ==
    LET s == SqliteGetEvents(sq, date_filter, timezone, localzone, year) IN
    \E pr \in PostgresGetEvents(pg, date_filter, timezone, localzone, year) :
    \E sr \in s.results :
        /\ sq' = s.self
        /\ call' = [NoCall EXCEPT !.op = "get_events", !.date_filter = date_filter,
                                  !.timezone = timezone,
                                  !.sqRaised = s.raised,
                                  !.pgBefore = pg, !.sqBefore = sq.rows,
                                  !.pgResult = pr, !.sqResult = sr,
                                  !.pgParam = convert_str_to_utc_datetime(
                                                  date_filter.v, timezone, localzone, year),
                                  !.sqParam = SqliteConvertStringToTimestampUtc(
                                                  sq, date_filter.v, timezone, localzone,
                                                  year).value]
        /\ UNCHANGED <<year, localzone, catalog, pg, cls, run>>

NextStore ==
    \/ \E e \in EventSet : CallSave(e)
    \/ \E f \in DateFilters, tz \in CallerZones : CallGetEvents(f, tz)

SpecStore == InitStore /\ [][NextStore]_vars

(***************************************************************************)
(* The schema check among the saves: a database with or without its table, *)
(* check_tables_exists called any number of times (each connector calls it *)
(* when it is constructed), saves of a constructed connector between them. *)
(***************************************************************************)
MaxChecks == 3

InitSchema ==
    /\ year = 2000 + 16
    /\ localzone = "UTC"
    /\ catalog \in Catalogs
    /\ pg = <<>>
    /\ sq = [rows |-> <<>>, server_timezone |-> localzone]
    /\ call = [NoCall EXCEPT !.catalogBefore = catalog]
    /\ cls = NoCls
    /\ run = [pc |-> "schema", checks |-> 0]

CallCheckTablesExists ==
    LET p == PostgresCheckTablesExists(catalog, pg)
        s == SqliteCheckTablesExists([catalog EXCEPT !.pg_events = p.catalog.pg_events], sq.rows)
    IN  /\ run.checks < MaxChecks
        /\ catalog' = s.catalog
        /\ pg' = p.rows
        /\ sq' = [sq EXCEPT !.rows = s.rows]
        /\ call' = [NoCall EXCEPT !.op = "check_tables_exists",
                                  !.pgRaised = p.raised, !.sqRaised = s.raised,
                                  !.pgBefore = pg, !.sqBefore = sq.rows,
                                  !.catalogBefore = catalog]
        /\ run' = [run EXCEPT !.checks = @ + 1]
        /\ UNCHANGED <<year, localzone, cls>>

\* save of connectors constructed earlier; INSERT INTO events fails inside the try of
\* PostgresConnector.save when the connection has no table events to resolve
SchemaSave(e) ==
    LET p == IF catalog.pg_events
             THEN PostgresSave(pg, e, localzone, year)
             ELSE [rows |-> pg, raised |-> "", outcome |-> "error"]
        s == SqliteSave(sq, e, localzone, year)
    IN  /\ run.checks > 0
        /\ Len(pg) < MaxRows
        /\ pg' = p.rows
        /\ sq' = s.self
        /\ call' = [NoCall EXCEPT !.op = "save", !.event = e,
                                  !.pgRaised = p.raised, !.sqRaised = s.raised,
                                  !.pgOutcome = p.outcome,
                                  !.pgData = PostgresPrepareData(e, localzone, year),
                                  !.pgBefore = pg, !.sqBefore = sq.rows,
                                  !.catalogBefore = catalog]
        /\ UNCHANGED <<year, localzone, catalog, cls, run>>

NextSchema ==
    \/ CallCheckTablesExists
    \/ \E e \in EventSet : SchemaSave(e)

SpecSchema == InitSchema /\ [][NextSchema]_vars

(***************************************************************************)
(* The regular expressions.  A pattern's literal text is a sequence of     *)
(* atoms; re.I folds the case of the letters.                              *)
(***************************************************************************)
Fold(a) ==
    CASE a = "ACCEPTED" -> "Accepted"
      [] a = "Install" -> "install"
      [] a = "INSTALL" -> "install"
      [] a = "Remove" -> "remove"
      [] a = "commandline" -> "Commandline"
      [] OTHER -> a

\* texts of the shape [a-z]{3}\s+[0-9]{1,2}\s+[0-9:]+ and of the shape [0-9]+
DateShaped == {"Jul  4 18:07:48", "Jul  4 19:58:30", "Feb 30 10:00:00"}
Digits == {"19399", "3231", "22"}

\* the literal pat stands in s at place i
MatchAt(s, i, pat) ==
    /\ i >= 1 /\ i + Len(pat) - 1 <= Len(s)
    /\ \A k \in 1..Len(pat) : Fold(s[i + k - 1]) = Fold(pat[k])

\* [^ ]+ from place i: the last place of the run of atoms other than the blank
RECURSIVE RunEnd(_, _)
RunEnd(s, i) == IF i < Len(s) /\ s[i + 1] # SP THEN RunEnd(s, i + 1) ELSE i

IsRun(s, i) == i >= 1 /\ i <= Len(s) /\ s[i] # SP

\* the text of s after place i up to the line break: what (.*) takes
RestOfLine(s, i) ==
    LET ends == {j \in i + 1..Len(s) : s[j] = NL}
        last == IF ends = {} THEN Len(s) ELSE (CHOOSE j \in ends : \A k \in ends : j <= k) - 1
    IN  SubSeq(s, i + 1, last)

Max(S) == CHOOSE x \in S : \A y \in S : y <= x

\* ([^ ]+) from ([^ ]+) with the first group at place u: the places of both groups
UserFromIp(s, u) ==
    IF ~IsRun(s, u) THEN [ok |-> FALSE, u |-> 0, ue |-> 0, a |-> 0, ae |-> 0]
    ELSE LET ue == RunEnd(s, u) IN
         IF ~(MatchAt(s, ue + 1, <<SP, "from", SP>>) /\ IsRun(s, ue + 4))
         THEN [ok |-> FALSE, u |-> 0, ue |-> 0, a |-> 0, ae |-> 0]
         ELSE [ok |-> TRUE, u |-> u, ue |-> ue, a |-> ue + 4, ae |-> RunEnd(s, ue + 4)]

\* " (port [0-9]+ )" after place ae
PortNoteAt(s, ae) ==
    /\ MatchAt(s, ae + 1, <<SP, "port", SP>>)
    /\ ae + 5 <= Len(s) /\ s[ae + 4] \in Digits /\ s[ae + 5] = SP

NoMatch == [matched |-> FALSE, groups |-> <<>>]

\* ^(date).*  : the date group opens the line and .* takes the longest text that
\* lets the rest match, so the phrase is found at the last place it fits
auth_with_password_re(s) ==
    LET At(i) == /\ MatchAt(s, i, <<"Accepted", SP, "password", SP, "for", SP>>)
                 /\ UserFromIp(s, i + 6).ok
                 /\ PortNoteAt(s, UserFromIp(s, i + 6).ae)
        places == {i \in 2..Len(s) : At(i)}
    IN  IF s # <<>> /\ s[1] \in DateShaped /\ places # {}
        THEN LET g == UserFromIp(s, Max(places) + 6) IN
             [matched |-> TRUE,
              groups |-> <<SubSeq(s, 1, 1), SubSeq(s, g.u, g.ue), SubSeq(s, g.a, g.ae),
                           SubSeq(s, g.ae + 2, g.ae + 5)>>]
        ELSE NoMatch

\* ... (port [0-9]+ ).*:(.+)  : the key is the text after the line's last colon
auth_with_key_re(s) ==
    LET Colons(i) == {c \in UserFromIp(s, i + 6).ae + 6..Len(s) :
                         s[c] = ":" /\ RestOfLine(s, c) # <<>>}
        At(i) == /\ MatchAt(s, i, <<"Accepted", SP, "publickey", SP, "for", SP>>)
                 /\ UserFromIp(s, i + 6).ok
                 /\ PortNoteAt(s, UserFromIp(s, i + 6).ae)
                 /\ Colons(i) # {}
        places == {i \in 2..Len(s) : At(i)}
    IN  IF s # <<>> /\ s[1] \in DateShaped /\ places # {}
        THEN LET g == UserFromIp(s, Max(places) + 6) IN
             [matched |-> TRUE,
              groups |-> <<SubSeq(s, 1, 1), SubSeq(s, g.u, g.ue), SubSeq(s, g.a, g.ae),
                           SubSeq(s, g.ae + 2, g.ae + 5),
                           RestOfLine(s, Max(Colons(Max(places))))>>]
        ELSE NoMatch

failed_login_re(s) ==
    LET At(i) == /\ MatchAt(s, i, <<"Failed", SP, "password", SP, "for", SP>>)
                 /\ UserFromIp(s, i + 6).ok
        places == {i \in 2..Len(s) : At(i)}
    IN  IF s # <<>> /\ s[1] \in DateShaped /\ places # {}
        THEN LET g == UserFromIp(s, Max(places) + 6) IN
             [matched |-> TRUE,
              groups |-> <<SubSeq(s, 1, 1), SubSeq(s, g.u, g.ue), SubSeq(s, g.a, g.ae)>>]
        ELSE NoMatch

\* sudo:\s+([^ ]+).*COMMAND=(.*)  : the user is the longest text without a blank
\* that leaves a COMMAND= behind it, the command the text after the last COMMAND=
sudo_command_re(s) ==
    LET User(i) == CHOOSE u \in i + 2..Len(s) + 1 :
                       /\ \A k \in i + 2..u - 1 : s[k] = SP
                       /\ u > Len(s) \/ s[u] # SP
        Commands(e) == {c \in e + 1..Len(s) : MatchAt(s, c, <<"COMMAND", "=">>)}
        UserEnds(i) == {e \in User(i)..RunEnd(s, User(i)) : Commands(e) # {}}
        At(i) == /\ MatchAt(s, i, <<"sudo", ":", SP>>)
                 /\ IsRun(s, User(i))
                 /\ UserEnds(i) # {}
        places == {i \in 2..Len(s) : At(i)}
    IN  IF s # <<>> /\ s[1] \in DateShaped /\ places # {}
        THEN LET i == Max(places)
                 e == Max(UserEnds(i))
             IN  [matched |-> TRUE,
                  groups |-> <<SubSeq(s, 1, 1), SubSeq(s, User(i), e),
                               RestOfLine(s, Max(Commands(e)) + 1)>>]
        ELSE NoMatch

\* a classifier that drops the port note of a password login
get_event_from_string_auth_without_port(line) ==
    LET auth_with_password == auth_with_password_re(line) IN
    IF auth_with_password.matched
    THEN [found |-> TRUE,
          event |-> Event(auth_with_password.groups[1], AUTH_PASSWORD,
                          PyStr(auth_with_password.groups[2]), PyStr(auth_with_password.groups[3]),
                          PyNone)]
    ELSE [found |-> FALSE, event |-> NoEvent]

\* a classifier that tries failed_login_re before the other patterns
get_event_from_string_auth_failed_first(line) ==
    LET auth_with_password == auth_with_password_re(line)
        failed_login == failed_login_re(line)
    IN  IF failed_login.matched
        THEN [found |-> TRUE,
              event |-> Event(failed_login.groups[1], AUTH_FAILED, PyStr(failed_login.groups[2]),
                              PyStr(failed_login.groups[3]), PyNone)]
        ELSE IF auth_with_password.matched
        THEN [found |-> TRUE,
              event |-> Event(auth_with_password.groups[1], AUTH_PASSWORD,
                              PyStr(auth_with_password.groups[2]),
                              PyStr(auth_with_password.groups[3]),
                              PyStr(auth_with_password.groups[4]))]
        ELSE [found |-> FALSE, event |-> NoEvent]

get_event_from_string_auth(line) ==
    LET auth_with_password == auth_with_password_re(line)
        auth_with_key == auth_with_key_re(line)
        failed_login == failed_login_re(line)
        sudo_command == sudo_command_re(line)
    IN  IF auth_with_password.matched
        THEN LET raw_event_data == auth_with_password.groups IN
             [found |-> TRUE,
              event |-> Event(raw_event_data[1], AUTH_PASSWORD, PyStr(raw_event_data[2]),
                              PyStr(raw_event_data[3]), PyStr(raw_event_data[4]))]
        ELSE IF auth_with_key.matched
        THEN LET raw_event_data == auth_with_key.groups IN
             [found |-> TRUE,
              event |-> Event(raw_event_data[1], AUTH_KEY, PyStr(raw_event_data[2]),
                              PyStr(raw_event_data[3]),
                              PyStr(raw_event_data[4] \o raw_event_data[5]))]
        ELSE IF failed_login.matched
        THEN LET raw_event_data == failed_login.groups IN
             [found |-> TRUE,
              event |-> Event(raw_event_data[1], AUTH_FAILED, PyStr(raw_event_data[2]),
                              PyStr(raw_event_data[3]), PyNone)]
        ELSE IF sudo_command.matched
        THEN LET raw_event_data == sudo_command.groups IN
             [found |-> TRUE,
              event |-> Event(raw_event_data[1], SUDO_COMMAND, PyStr(raw_event_data[2]),
                              PyNone, PyStr(raw_event_data[3]))]
        ELSE [found |-> FALSE, event |-> NoEvent]

(***************************************************************************)
(* Lines of the authorization log: a date, the host and process, and one   *)
(* or two of the texts below, with or without the line break.              *)
(***************************************************************************)
Join(a, b) == a \o <<SP>> \o b

AuthTexts ==
    { <<"Accepted", SP, "password", SP, "for", SP, "warner", SP, "from", SP, "192.168.1.6",
        SP, "port", SP, "19399", SP, "ssh2">>,
      <<"ACCEPTED", SP, "password", SP, "for", SP, "root", SP, "from", SP, "gateway.lan",
        SP, "port", SP, "22", SP, "ssh2">>,
      <<"Accepted", SP, "password", SP, "for", SP, "warner", SP, "from", SP, "192.168.1.6",
        SP, "port", SP, "19399">>,
      <<"Accepted", SP, "publickey", SP, "for", SP, "root", SP, "from", SP, "91.215.191.84",
        SP, "port", SP, "3231", SP, "ssh2", ":", SP, "RSA", SP, "SHA256", ":", "UVlLoEzq">>,
      <<"Failed", SP, "password", SP, "for", SP, "warner", SP, "from", SP, "192.168.1.6",
        SP, "port", SP, "22", SP, "ssh2">>,
      <<"Failed", SP, "password", SP, "for", SP, "invalid", SP, "user", SP, "bob", SP, "from",
        SP, "91.215.191.84">>,
      <<"sudo", ":", SP, SP, "warner", SP, ":", SP, "TTY=pts/0", SP, ";", SP,
        "COMMAND", "=", "/usr/bin/apt-get", SP, "update">>,
      <<"session", SP, "opened", SP, "for", SP, "user", SP, "root">> }

LineStarts ==
    { <<"Jul  4 18:07:48", SP, "host", SP, "sshd[123]", ":">>,
      <<"Feb 30 10:00:00", SP, "host", SP, "sshd[123]", ":">>,
      <<"2016-04-07  19:25:28", SP, "host", ":">> }

AuthLines ==
    LET bodies == AuthTexts \cup {Join(a, b) : a, b \in AuthTexts}
        texts == {Join(h, b) : h \in LineStarts, b \in bodies}
    IN  texts \cup {t \o <<NL>> : t \in texts}

(***************************************************************************)
(* The classifier applied to a line.                                       *)
(***************************************************************************)
InitClassify ==
    /\ year = 2000 + 16
    /\ localzone = "UTC"
    /\ catalog = AllTables
    /\ pg = <<>>
    /\ sq = [rows |-> <<>>, server_timezone |-> localzone]
    /\ call = NoCall
    /\ cls = NoCls
    /\ run = NoRun

Classify(line) ==
    LET r == get_event_from_string_auth(line) IN
    /\ cls = NoCls
    /\ cls' = [line |-> line, event |-> r.event, found |-> r.found]
    /\ UNCHANGED <<year, localzone, catalog, pg, sq, call, run>>

NextClassify == \E line \in AuthLines : Classify(line)

SpecClassify == InitClassify /\ [][NextClassify]_vars

(***************************************************************************)
(* The 'parse' run: LogsFinderAndReader.get_lines, the loop over the       *)
(* authorization log and the scanner of the apt history log.               *)
(***************************************************************************)
MaxAuthLines == 2
MaxAptLines == 2
MaxScanLines == 3
MaxRuns == 2

\* the literal text pat is in s (`pat in one_line`, with the case as written)
ContainsText(s, pat) ==
    \E i \in 1..Len(s) - Len(pat) + 1 : \A k \in 1..Len(pat) : s[i + k - 1] = pat[k]

\* one_line.split(' ', maxsplit=1): the text before and the text after the first blank
Split1(s) ==
    LET blanks == {i \in 1..Len(s) : s[i] = SP} IN
    IF blanks = {} THEN <<s>>
    ELSE LET b == CHOOSE i \in blanks : \A j \in blanks : i <= j
         IN  <<SubSeq(s, 1, b - 1), SubSeq(s, b + 1, Len(s))>>

\* Commandline:.*(install|remove) (.*)  : findall's first match starts at the first
\* Commandline: that has a verb and a blank behind it; .* runs to the last such verb
apt_get_commands_re(s) ==
    LET Verbs(i) == {v \in i + 2..Len(s) - 1 :
                        Fold(s[v]) \in {"install", "remove"} /\ s[v + 1] = SP}
        places == {i \in 1..Len(s) : MatchAt(s, i, <<"Commandline", ":">>) /\ Verbs(i) # {}}
    IN  IF places = {} THEN NoMatch
        ELSE LET i == CHOOSE x \in places : \A y \in places : x <= y
                 v == Max(Verbs(i))
             IN  [matched |-> TRUE, groups |-> <<SubSeq(s, v, v), RestOfLine(s, v + 1)>>]

\* LogsFinderAndReader.get_lines.  A log file is [lines, raises]: the lines that
\* come out of it and the exception its opening or reading raises after them (""
\* when it is read to its end).  EnvironmentError is caught and the next file is
\* opened; any other exception (EOFError of a truncated .gz file, UnicodeDecodeError
\* of a byte that is no text) leaves the generator.  The result is the lines
\* yielded and the exception that ends the iteration ("" when none does).
RECURSIVE get_lines(_)
get_lines(logfiles) ==
    IF logfiles = <<>> THEN [yielded |-> <<>>, raised |-> ""]
    ELSE LET one_file == Head(logfiles)
             rest == get_lines(Tail(logfiles))
         IN  IF one_file.raises \in {"", "EnvironmentError"}
             THEN [yielded |-> one_file.lines \o rest.yielded, raised |-> rest.raised]
             ELSE [yielded |-> one_file.lines, raised |-> one_file.raises]

\* saver.save(e) of the connector the settings choose
SaverSave(backend, e) ==
    IF backend = "postgresql"
    THEN LET p == PostgresSave(pg, e, localzone, year) IN
         [pg |-> p.rows, sq |-> sq, raised |-> p.raised, outcome |-> p.outcome,
          unchanged |-> p.rows = pg]
    ELSE LET q == SqliteSave(sq, e, localzone, year) IN
         [pg |-> pg, sq |-> q.self, raised |-> q.raised,
          outcome |-> IF q.raised = "" THEN "ok" ELSE "raised",
          unchanged |-> q.self.rows = sq.rows]

\* a loop body that forgets to close the transaction at End-Date
AptBodyEndIgnored(one_line, start_date) ==
    IF ContainsText(one_line, <<"Start-Date", ":">>)
    THEN IF Len(Split1(one_line)) < 2
         THEN [raised |-> "IndexError", start_date |-> start_date, save |-> FALSE, e |-> NoEvent]
         ELSE [raised |-> "", start_date |-> PyStr(Split1(one_line)[2]), save |-> FALSE,
               e |-> NoEvent]
    ELSE IF Truthy(start_date) /\ apt_get_commands_re(one_line).matched
    THEN LET raw_data == apt_get_commands_re(one_line).groups
             e_type == IF raw_data[1] = <<"install">> THEN INSTALL_PACKAGE ELSE REMOVE_PACKAGE
         IN  [raised |-> "", start_date |-> start_date, save |-> TRUE,
              e |-> Event(start_date.v, e_type, root, PyNone, PyStr(raw_data[2]))]
    ELSE [raised |-> "", start_date |-> start_date, save |-> FALSE, e |-> NoEvent]

\* a loop body that takes every command for an installation
AptBodyAlwaysInstall(one_line, start_date) ==
    IF ContainsText(one_line, <<"Start-Date", ":">>)
    THEN IF Len(Split1(one_line)) < 2
         THEN [raised |-> "IndexError", start_date |-> start_date, save |-> FALSE, e |-> NoEvent]
         ELSE [raised |-> "", start_date |-> PyStr(Split1(one_line)[2]), save |-> FALSE,
               e |-> NoEvent]
    ELSE IF ContainsText(one_line, <<"End-Date", ":">>)
    THEN [raised |-> "", start_date |-> PyNone, save |-> FALSE, e |-> NoEvent]
    ELSE IF Truthy(start_date) /\ apt_get_commands_re(one_line).matched
    THEN [raised |-> "", start_date |-> start_date, save |-> TRUE,
          e |-> Event(start_date.v, INSTALL_PACKAGE, root, PyNone,
                      PyStr(apt_get_commands_re(one_line).groups[2]))]
    ELSE [raised |-> "", start_date |-> start_date, save |-> FALSE, e |-> NoEvent]

\* a loop body that keeps the date of a transaction already open
AptBodyFirstStartKept(one_line, start_date) ==
    IF ContainsText(one_line, <<"Start-Date", ":">>)
    THEN IF Len(Split1(one_line)) < 2
         THEN [raised |-> "IndexError", start_date |-> start_date, save |-> FALSE, e |-> NoEvent]
         ELSE [raised |-> "",
               start_date |-> IF Truthy(start_date) THEN start_date
                              ELSE PyStr(Split1(one_line)[2]),
               save |-> FALSE, e |-> NoEvent]
    ELSE IF ContainsText(one_line, <<"End-Date", ":">>)
    THEN [raised |-> "", start_date |-> PyNone, save |-> FALSE, e |-> NoEvent]
    ELSE IF Truthy(start_date) /\ apt_get_commands_re(one_line).matched
    THEN LET raw_data == apt_get_commands_re(one_line).groups
             e_type == IF raw_data[1] = <<"install">> THEN INSTALL_PACKAGE ELSE REMOVE_PACKAGE
         IN  [raised |-> "", start_date |-> start_date, save |-> TRUE,
              e |-> Event(start_date.v, e_type, root, PyNone, PyStr(raw_data[2]))]
    ELSE [raised |-> "", start_date |-> start_date, save |-> FALSE, e |-> NoEvent]

\* what one pass of the apt loop's body does with one_line and start_date
AptBody(one_line, start_date) ==
    IF ContainsText(one_line, <<"Start-Date", ":">>)
    THEN IF Len(Split1(one_line)) < 2
         THEN [raised |-> "IndexError", start_date |-> start_date, save |-> FALSE, e |-> NoEvent]
         ELSE [raised |-> "", start_date |-> PyStr(Split1(one_line)[2]), save |-> FALSE,
               e |-> NoEvent]
    ELSE IF ContainsText(one_line, <<"End-Date", ":">>)
    THEN [raised |-> "", start_date |-> PyNone, save |-> FALSE, e |-> NoEvent]
    ELSE IF Truthy(start_date) /\ apt_get_commands_re(one_line).matched
    THEN LET raw_data == apt_get_commands_re(one_line).groups
             e_type == IF raw_data[1] = <<"install">> THEN INSTALL_PACKAGE ELSE REMOVE_PACKAGE
         IN  [raised |-> "", start_date |-> start_date, save |-> TRUE,
              e |-> Event(start_date.v, e_type, root, PyNone, PyStr(raw_data[2]))]
    ELSE [raised |-> "", start_date |-> start_date, save |-> FALSE, e |-> NoEvent]

Emitted(phase, k, e, r) ==
    [phase |-> phase, k |-> k, event |-> e, outcome |-> r.outcome, raised |-> r.raised,
     unchanged |-> r.unchanged, year |-> year]

\* db_connector(db_settings=DATABASE): connect and check the table, or fail in
\* connect or in a statement of check_tables_exists
Connect ==
    /\ run.pc = "connect"
    /\ \E connected \in BOOLEAN :
          LET c == IF run.backend = "postgresql"
                   THEN PostgresCheckTablesExists(catalog, pg)
                   ELSE SqliteCheckTablesExists(catalog, sq.rows)
          IN  IF connected
              THEN /\ run' = [run EXCEPT !.pc = "auth", !.i = 0, !.string_counter = 0]
                   /\ catalog' = c.catalog
              ELSE /\ run' = [run EXCEPT !.pc = "crashed", !.raised = "OperationalError"]
                   /\ catalog' = catalog
    /\ sq' = [sq EXCEPT !.server_timezone = localzone]
    /\ UNCHANGED <<year, localzone, pg, call, cls>>

\* one pass of `for one_line in ssh_logs.get_lines()`
AuthLine ==
    /\ run.pc = "auth"
    /\ run.i < Len(get_lines(run.auth_files).yielded)
    /\ LET one_line == get_lines(run.auth_files).yielded[run.i + 1]
           c == get_event_from_string_auth(one_line)
           r == SaverSave(run.backend, c.event)
       IN  IF ~c.found
           THEN /\ run' = [run EXCEPT !.i = @ + 1, !.string_counter = @ + 1,
                                      !.yielded = Append(@, one_line)]
                /\ UNCHANGED <<pg, sq>>
           ELSE /\ run' = [run EXCEPT !.i = @ + 1, !.string_counter = @ + 1,
                                      !.yielded = Append(@, one_line),
                                      !.emitted = Append(@, Emitted("auth", run.i + 1, c.event, r)),
                                      !.pc = IF r.raised = "" THEN @ ELSE "crashed",
                                      !.raised = r.raised]
                /\ pg' = r.pg
                /\ sq' = r.sq
    /\ UNCHANGED <<year, localzone, catalog, call, cls>>

\* the authorization log is read: on to the apt history log
AuthEnd ==
    /\ run.pc = "auth"
    /\ run.i = Len(get_lines(run.auth_files).yielded)
    /\ run' = IF get_lines(run.auth_files).raised = ""
              THEN [run EXCEPT !.pc = "apt", !.i = 0, !.string_counter = 0,
                               !.start_date = PyNone]
              ELSE [run EXCEPT !.pc = "crashed", !.raised = get_lines(run.auth_files).raised]
    /\ UNCHANGED <<year, localzone, catalog, pg, sq, call, cls>>

\* a loop that forgets the open transaction where a new file begins
AptLineResetPerFile ==
    /\ run.pc = "apt"
    /\ run.i < Len(get_lines(run.apt_files).yielded)
    /\ LET one_line == get_lines(run.apt_files).yielded[run.i + 1]
           first == {Len(get_lines(SubSeq(run.apt_files, 1, f)).yielded) + 1 :
                        f \in 1..Len(run.apt_files)}
           b == AptBody(one_line, IF run.i + 1 \in first THEN PyNone ELSE run.start_date)
           r == SaverSave(run.backend, b.e)
       IN  IF ~b.save
           THEN /\ run' = [run EXCEPT !.i = @ + 1, !.string_counter = @ + 1,
                                      !.yielded = Append(@, one_line),
                                      !.start_date = b.start_date,
                                      !.pc = IF b.raised = "" THEN @ ELSE "crashed",
                                      !.raised = b.raised]
                /\ UNCHANGED <<pg, sq>>
           ELSE /\ run' = [run EXCEPT !.i = @ + 1, !.string_counter = @ + 1,
                                      !.yielded = Append(@, one_line),
                                      !.emitted = Append(@, Emitted("apt", run.i + 1, b.e, r)),
                                      !.pc = IF r.raised = "" THEN @ ELSE "crashed",
                                      !.raised = r.raised]
                /\ pg' = r.pg
                /\ sq' = r.sq
    /\ UNCHANGED <<year, localzone, catalog, call, cls>>

\* one pass of `for one_line in apt_logs.get_lines()`
AptLine ==
    /\ run.pc = "apt"
    /\ run.i < Len(get_lines(run.apt_files).yielded)
    /\ LET one_line == get_lines(run.apt_files).yielded[run.i + 1]
           b == AptBody(one_line, run.start_date)
           r == SaverSave(run.backend, b.e)
       IN  IF ~b.save
           THEN /\ run' = [run EXCEPT !.i = @ + 1, !.string_counter = @ + 1,
                                      !.yielded = Append(@, one_line),
                                      !.start_date = b.start_date,
                                      !.pc = IF b.raised = "" THEN @ ELSE "crashed",
                                      !.raised = b.raised]
                /\ UNCHANGED <<pg, sq>>
           ELSE /\ run' = [run EXCEPT !.i = @ + 1, !.string_counter = @ + 1,
                                      !.yielded = Append(@, one_line),
                                      !.emitted = Append(@, Emitted("apt", run.i + 1, b.e, r)),
                                      !.pc = IF r.raised = "" THEN @ ELSE "crashed",
                                      !.raised = r.raised]
                /\ pg' = r.pg
                /\ sq' = r.sq
    /\ UNCHANGED <<year, localzone, catalog, call, cls>>

\* the apt history log is read: the run ends
AptEnd ==
    /\ run.pc = "apt"
    /\ run.i = Len(get_lines(run.apt_files).yielded)
    /\ run' = IF get_lines(run.apt_files).raised = ""
              THEN [run EXCEPT !.pc = "done",
                               !.finished = Append(@, [year |-> year, pg |-> pg,
                                                       sq |-> sq.rows])]
              ELSE [run EXCEPT !.pc = "crashed", !.raised = get_lines(run.apt_files).raised]
    /\ UNCHANGED <<year, localzone, catalog, pg, sq, call, cls>>

\* the script is started again over the same files
Rerun ==
    /\ run.pc = "done"
    /\ Len(run.finished) < MaxRuns
    /\ run' = [run EXCEPT !.pc = "connect", !.i = 0, !.string_counter = 0,
                          !.start_date = PyNone, !.emitted = <<>>, !.yielded = <<>>]
    /\ UNCHANGED <<year, localzone, catalog, pg, sq, call, cls>>

\* between two runs the host's clock passes into the next year
NewYear ==
    /\ run.pc = "done"
    /\ Len(run.finished) < MaxRuns
    /\ year + 1 \in Years
    /\ year' = year + 1
    /\ UNCHANGED <<localzone, catalog, pg, sq, call, cls, run>>

Next == Connect \/ AuthLine \/ AuthEnd \/ AptLine \/ AptEnd \/ Rerun \/ NewYear

\* lines of the two logs
H1 == <<"Jul  4 18:07:48", SP, "host", SP, "sshd[123]", ":", SP>>
H2 == <<"Feb 30 10:00:00", SP, "host", SP, "sshd[123]", ":", SP>>
RunAuthLines ==
    { H1 \o <<"Accepted", SP, "password", SP, "for", SP, "warner", SP, "from", SP, "192.168.1.6",
              SP, "port", SP, "19399", SP, "ssh2", NL>>,
      H1 \o <<"Accepted", SP, "password", SP, "for", SP, "root", SP, "from", SP, "gateway.lan",
              SP, "port", SP, "22", SP, "ssh2", NL>>,
      H2 \o <<"Failed", SP, "password", SP, "for", SP, "warner", SP, "from", SP, "192.168.1.6",
              SP, "port", SP, "22", SP, "ssh2", NL>>,
      H1 \o <<"session", SP, "opened", SP, "for", SP, "user", SP, "root", NL>> }

StartLine(d) == <<"Start-Date", ":", SP, d, NL>>
EndLine == <<"End-Date", ":", SP, "2016-04-08  11:02:13", NL>>
CommandLine(verb, pkg) == <<"Commandline", ":", SP, "apt-get", SP, verb, SP, pkg, NL>>

RunAptLines ==
    { StartLine("2016-04-07  19:25:28"), CommandLine("install", "fish"), EndLine }

ScanAptLines ==
    { StartLine("2016-04-07  19:25:28"), StartLine("2016-04-08  11:02:13"),
      <<"Start-Date", ":", SP, NL>>, <<"Start-Date", ":", NL>>,
      EndLine,
      CommandLine("install", "fish"), CommandLine("remove", "vim"),
      CommandLine("Install", "fish"),
      <<"Install", ":", SP, "fish:amd64", SP, "(2.0.0-1)", NL>> }

SeqsUpTo(S, n) == UNION {[1..k -> S] : k \in 0..n}

OneFile(lines) == <<[lines |-> lines, raises |-> ""]>>

NewRun(backend, auth_files, apt_files) ==
    [pc |-> "connect", backend |-> backend, auth_files |-> auth_files, apt_files |-> apt_files,
     i |-> 0, string_counter |-> 0, start_date |-> PyNone, raised |-> "",
     emitted |-> <<>>, finished |-> <<>>, yielded |-> <<>>]

\* the script started with the command 'parse'
Init ==
    /\ year = 2000 + 16
    /\ localzone = "Europe/Moscow"
    /\ catalog = NoTables
    /\ pg = <<>>
    /\ sq = [rows |-> <<>>, server_timezone |-> localzone]
    /\ call = NoCall
    /\ cls = NoCls
    /\ \E backend \in {"postgresql", "sqlite"} :
       \E auth \in SeqsUpTo(RunAuthLines, MaxAuthLines) :
       \E apt \in SeqsUpTo(RunAptLines, MaxAptLines) :
           run = NewRun(backend, OneFile(auth), OneFile(apt))

Spec == Init /\ [][Next]_vars

\* the run at the head of the apt loop (start_date = None), the history log in one
\* file or cut in two
InitScan ==
    /\ year = 2000 + 16
    /\ localzone = "Europe/Moscow"
    /\ catalog = AllTables
    /\ pg = <<>>
    /\ sq = [rows |-> <<>>, server_timezone |-> localzone]
    /\ call = NoCall
    /\ cls = NoCls
    /\ \E backend \in {"postgresql", "sqlite"} :
       \E apt \in SeqsUpTo(ScanAptLines, MaxScanLines) :
       \E cut \in 0..Len(apt) :
           run = [NewRun(backend, <<>>,
                         <<[lines |-> SubSeq(apt, 1, cut), raises |-> ""],
                           [lines |-> SubSeq(apt, cut + 1, Len(apt)), raises |-> ""]>>)
                  EXCEPT !.pc = "apt"]

NextScan == AptLine \/ AptEnd

SpecScan == InitScan /\ [][NextScan]_vars

(***************************************************************************)
(* The run from the head of the loop over the authorization log, that log  *)
(* in up to MaxFiles files of which some cannot be opened or read through. *)
(***************************************************************************)
MaxFiles == 3

ReadLines ==
    { H1 \o <<"Accepted", SP, "password", SP, "for", SP, "warner", SP, "from", SP, "192.168.1.6",
              SP, "port", SP, "19399", SP, "ssh2", NL>>,
      H1 \o <<"session", SP, "opened", SP, "for", SP, "user", SP, "root", NL>> }

\* a file and how its reading ends: at its end, with an EnvironmentError (it cannot
\* be opened, or the device fails), or with an EOFError (a .gz file cut short)
LogFiles == [lines : SeqsUpTo(ReadLines, 1), raises : {"", "EnvironmentError", "EOFError"}]

InitRead ==
    /\ year = 2000 + 16
    /\ localzone = "Europe/Moscow"
    /\ catalog = AllTables
    /\ pg = <<>>
    /\ sq = [rows |-> <<>>, server_timezone |-> localzone]
    /\ call = NoCall
    /\ cls = NoCls
    /\ \E auth_files \in SeqsUpTo(LogFiles, MaxFiles) :
           run = [NewRun("postgresql", auth_files, <<>>) EXCEPT !.pc = "auth"]

NextRead == AuthLine \/ AuthEnd \/ AptEnd

SpecRead == InitRead /\ [][NextRead]_vars

(***************************************************************************)
(* Properties of the connectors.                                           *)
(***************************************************************************)
Range(f) == {f[i] : i \in DOMAIN f}

NoSharedFingerprint(rows) ==
    \A i, j \in 1..Len(rows) : i # j => rows[i].event_hash # rows[j].event_hash

\* C1: on either backend no two stored records share a fingerprint, and a save of
\* an event whose fingerprint is already stored raises no error and leaves the
\* records as they were.
C1_UniqueFingerprintSilentSave ==
    /\ NoSharedFingerprint(pg)
    /\ NoSharedFingerprint(sq.rows)
    /\ call.op = "save" =>
          /\ call.pgRaised = "" /\ call.sqRaised = ""
          /\ call.pgOutcome = "conflict" => pg = call.pgBefore

\* the threshold instant of a get_events call: the filter's wall-clock time in the
\* zone the caller names (the host's zone when it names none), as a UTC instant
ValidFilter(date_filter) ==
    date_filter.t = "None" \/ Parse(date_filter.v, year).raised = ""
Threshold(date_filter, timezone) ==
    Parse(date_filter.v, year).naive - UtcOffset(IF timezone = NoTz THEN localzone ELSE timezone)

\* the records yielded are exactly the stored ones at or after the threshold
ExactlySince(result, rows, date_filter, timezone) ==
    LET S == {i \in 1..Len(rows) :
                 date_filter.t = "None"
                     \/ rows[i].event_time.v >= Threshold(date_filter, timezone)}
    IN  /\ Len(result) = Cardinality(S)
        /\ Range(result) = {<<PyDatetime(rows[i].event_time.v)>> \o Tail(Selected(rows[i])) : i \in S}

NonDecreasing(result) ==
    \A i \in 1..Len(result) - 1 : result[i][1].v <= result[i + 1][1].v
StrictlyAscending(result) ==
    \A i \in 1..Len(result) - 1 : result[i][1].v < result[i + 1][1].v

\* C3 (as amended): get_events yields exactly the stored records with
\* event_time >= T (all of them when no threshold is given), in ascending order of
\* event_time in which records of equal event_time follow one another.
C3_ExactlySinceAscending ==
    call.op = "get_events" /\ ValidFilter(call.date_filter) =>
        /\ ExactlySince(call.pgResult, call.pgBefore, call.date_filter, call.timezone)
        /\ NonDecreasing(call.pgResult)
        /\ call.sqRaised = ""
        /\ ExactlySince(call.sqResult, call.sqBefore, call.date_filter, call.timezone)
        /\ NonDecreasing(call.sqResult)

\* C3 as stated: the sequence yielded is strictly ascending by event_time.
C3_StrictlyAscending ==
    call.op = "get_events" /\ ValidFilter(call.date_filter) =>
        /\ ExactlySince(call.pgResult, call.pgBefore, call.date_filter, call.timezone)
        /\ StrictlyAscending(call.pgResult)
        /\ StrictlyAscending(call.sqResult)

\* a call with a threshold that keeps two records of one event_time and drops a third
C3_Witness ==
    /\ call.op = "get_events" /\ Truthy(call.date_filter) /\ ValidFilter(call.date_filter)
    /\ Len(call.pgResult) = 2 /\ Len(call.pgBefore) = 3
    /\ call.pgResult[1][1] = call.pgResult[2][1]

\* C7: a save of an event whose timestamp cannot be parsed stores nothing and lets
\* no exception escape, on both backends.
C7_MalformedTimestampSkipped ==
    call.op = "save" /\ Parse(call.event.date, year).raised # "" =>
        /\ call.pgRaised = "" /\ pg = call.pgBefore
        /\ call.sqRaised = "" /\ sq.rows = call.sqBefore

\* C9: the two backends succeed or fail on the same calls, and get_events yields
\* the same records on both.
C9_BackendsAgree ==
    /\ call.op = "save" =>
          /\ (call.pgRaised = "") = (call.sqRaised = "")
          /\ Len(pg) = Len(sq.rows)
    /\ call.op = "get_events" =>
          /\ (call.pgRaised = "") = (call.sqRaised = "")
          /\ Range(call.pgResult) = Range(call.sqResult)

\* the events that differ from e in at most one field
Variants(e) ==
    {[e EXCEPT !.date = d] : d \in {<<"Jul  4 18:07:48">>, <<"Jul  4 19:58:30">>,
                                     <<"2016-07-04 18:00">>, <<"2016-04-07  19:25:28">>}}
    \cup {[e EXCEPT !.type = t] : t \in AUTH_KEY..REMOVE_PACKAGE}
    \cup {[e EXCEPT !.username = u] : u \in {warner, root, PyNone, PyStr(<<"None">>)}}
    \cup {[e EXCEPT !.user_ip = a] : a \in {PyStr(<<"192.168.1.6">>), PyStr(<<"91.215.191.84">>),
                                            PyNone, PyStr(<<"None">>)}}
    \cup {[e EXCEPT !.details = d] : d \in {PyStr(PortNote), PyStr(<<"fish">>), PyStr(<<"vim">>),
                                            PyNone, PyStr(<<"None">>), PyStr(<<>>)}}

Resolved(new_data) == SubSeq(new_data, 1, 5)
Fingerprint(new_data) == new_data[6]

\* C10: the fingerprint prepare_data computes is a function of the resolved tuple
\* (event_time, kind, username, source_ip, details): equal tuples have equal
\* fingerprints, and tuples that differ in one field have different fingerprints.
C10_FingerprintOfResolvedTuple ==
    call.op = "save" =>
        \A x \in Variants(call.event) :
            LET d == PostgresPrepareData(x, localzone, year) IN
            (Fingerprint(d) = Fingerprint(call.pgData)) <=> (Resolved(d) = Resolved(call.pgData))

\* a save whose event has, among its one-field variants, another date text of the
\* same instant and a record already stored that differs in the details alone
C10_Witness ==
    /\ call.op = "save"
    /\ \E x \in Variants(call.event) :
          /\ x.date # call.event.date
          /\ Resolved(PostgresPrepareData(x, localzone, year)) = Resolved(call.pgData)
    /\ \E i \in 1..Len(pg) :
          /\ pg[i].description # call.pgData[5]
          /\ pg[i].event_time = call.pgData[1] /\ pg[i].event_type = call.pgData[2]
          /\ pg[i].event_user = call.pgData[3] /\ pg[i].user_ip = call.pgData[4]
          /\ pg[i].event_hash # call.pgData[6]

(***************************************************************************)
(* Properties of the classifier.                                           *)
(***************************************************************************)
\* C6 (as amended): for a line that matches the password-auth pattern the
\* classifier returns an AuthPassword event whose username and source_ip are the
\* captured groups and whose details is the captured port note ("port N ").
C6_PasswordEventGroups ==
    auth_with_password_re(cls.line).matched =>
        LET g == auth_with_password_re(cls.line).groups IN
        /\ cls.found
        /\ cls.event.type = AUTH_PASSWORD
        /\ cls.event.date = g[1]
        /\ cls.event.username = PyStr(g[2])
        /\ cls.event.user_ip = PyStr(g[3])
        /\ cls.event.details = PyStr(g[4])
        /\ Len(g[4]) = 4 /\ Fold(g[4][1]) = "port" /\ g[4][3] \in Digits

\* C6 as stated: the details of the AuthPassword event is unset.
C6_PasswordEventDetailsUnset ==
    auth_with_password_re(cls.line).matched =>
        LET g == auth_with_password_re(cls.line).groups IN
        /\ cls.found
        /\ cls.event.type = AUTH_PASSWORD
        /\ cls.event.username = PyStr(g[2])
        /\ cls.event.user_ip = PyStr(g[3])
        /\ cls.event.details = PyNone

\* the sample line of the source's comment, classified
C6_Witness ==
    /\ cls.line = <<"Jul  4 18:07:48", SP, "host", SP, "sshd[123]", ":", SP,
                     "Accepted", SP, "password", SP, "for", SP, "warner", SP, "from", SP,
                     "192.168.1.6", SP, "port", SP, "19399", SP, "ssh2", NL>>
    /\ cls.found
    /\ cls.event = Event(<<"Jul  4 18:07:48">>, AUTH_PASSWORD, warner,
                          PyStr(<<"192.168.1.6">>), PyStr(PortNote))

(***************************************************************************)
(* Properties of the 'parse' run.                                          *)
(***************************************************************************)
\* C2 (as amended): when the 'parse' run is made twice over the same files within
\* one calendar year of the host clock, the records stored after the second run are
\* those stored after the first.
C2_SecondRunAddsNothingInOneYear ==
    \A n \in 1..Len(run.finished) - 1 :
        run.finished[n].year = run.finished[n + 1].year =>
            /\ run.finished[n + 1].pg = run.finished[n].pg
            /\ run.finished[n + 1].sq = run.finished[n].sq

\* C2 as stated: the records stored after the second run are those stored after
\* the first.
C2_SecondRunAddsNothing ==
    \A n \in 1..Len(run.finished) - 1 :
        /\ run.finished[n + 1].pg = run.finished[n].pg
        /\ run.finished[n + 1].sq = run.finished[n].sq

\* a second run, in the year of the first, whose saves all met a stored fingerprint
C2_Witness ==
    /\ Len(run.finished) = 2
    /\ run.finished[1].year = run.finished[2].year
    /\ Len(run.finished[1].pg) = 2
    /\ Len(run.emitted) = 2
    /\ \A n \in 1..Len(run.emitted) : run.emitted[n].outcome = "conflict"

\* the row a saved event makes is stored
Stored(e, yr) ==
    \E i \in 1..Len(pg) : pg[i].event_hash = Fingerprint(PostgresPrepareData(e, localzone, yr))

AptLines == get_lines(run.apt_files).yielded
IsStartLine(l) == ContainsText(l, <<"Start-Date", ":">>)
IsEndLine(l) == ~IsStartLine(l) /\ ContainsText(l, <<"End-Date", ":">>)

\* the Start-Date lines before line k that no End-Date line follows before k
OpenStarts(lines, k) ==
    {j \in 1..k - 1 : IsStartLine(lines[j]) /\ \A m \in j + 1..k - 1 : ~IsEndLine(lines[m])}

\* C4: an install/remove event is emitted only for a line that stands after a
\* Start-Date line with no End-Date line in between.
C4_EventOnlyInsideTransaction ==
    \A n \in 1..Len(run.emitted) :
        run.emitted[n].phase = "apt" => OpenStarts(AptLines, run.emitted[n].k) # {}

\* Start-Date, End-Date and a command line are read: no event, nothing stored
C4_Witness ==
    /\ run.pc = "done" /\ Len(AptLines) = 3
    /\ IsStartLine(AptLines[1]) /\ IsEndLine(AptLines[2])
    /\ apt_get_commands_re(AptLines[3]).matched
    /\ run.emitted = <<>> /\ pg = <<>>

PostgresListed(cat) == cat.pg_events \/ cat.pg_elsewhere

\* C11: check_tables_exists is idempotent.  Called when no table events is there
\* (PostgreSQL: none listed in the database; SQLite: none in the file) it creates
\* the table; called when one is there, any number of times and with any stored
\* records, it raises nothing and leaves the tables and every stored record as
\* they were.
C11_CheckTablesExistsIdempotent ==
    call.op = "check_tables_exists" =>
        /\ call.pgRaised = "" /\ call.sqRaised = ""
        /\ ~PostgresListed(call.catalogBefore) => catalog.pg_events
        /\ PostgresListed(call.catalogBefore) =>
              /\ catalog.pg_events = call.catalogBefore.pg_events
              /\ pg = call.pgBefore
        /\ catalog.pg_elsewhere = call.catalogBefore.pg_elsewhere
        /\ ~call.catalogBefore.sq_events => catalog.sq_events
        /\ call.catalogBefore.sq_events =>
              /\ catalog.sq_events
              /\ sq.rows = call.sqBefore

\* check_tables_exists called again on a table that holds records
C11_Witness ==
    /\ call.op = "check_tables_exists"
    /\ run.checks >= 2
    /\ call.catalogBefore.pg_events /\ call.catalogBefore.sq_events
    /\ Len(call.pgBefore) >= 2
    /\ pg = call.pgBefore

(***************************************************************************)
(* Properties of the timestamp resolution.                                 *)
(***************************************************************************)
\* the naive time of a date text taken as wall-clock time of zone tz (the host's zone
\* when tz is None), as hours of UTC
Instant(date_string, tz) ==
    Parse(date_string, year).naive - UtcOffset(IF tz = NoTz THEN localzone ELSE tz)

\* C12: the value each backend stores on save is the UTC instant of the event's date
\* read as wall-clock time of the host's zone (save supplies no timezone), and the
\* value each backend compares against in get_events is the UTC instant of the
\* filter read as wall-clock time of the timezone supplied, the host's zone being
\* used only when none is supplied.
C12_BackendsUseResolvedInstant ==
    /\ (call.op = "save" /\ Parse(call.event.date, year).raised = "") =>
          /\ call.pgData[1] = PyDatetime(Instant(call.event.date, NoTz))
          /\ call.sqRaised = ""
    /\ (call.op = "get_events" /\ Truthy(call.date_filter)
          /\ Parse(call.date_filter.v, year).raised = "") =>
          /\ call.pgParam = PyDatetime(Instant(call.date_filter.v, call.timezone))
          /\ call.sqParam.v = Instant(call.date_filter.v, call.timezone)

(***************************************************************************)
(* Properties of the classifier's order.                                   *)
(***************************************************************************)
\* the patterns in the order password-auth, key-auth, failed-login, sudo-command,
\* each with the event type it stands for
PatternOrder(line) ==
    << [re |-> auth_with_password_re(line), type |-> AUTH_PASSWORD],
       [re |-> auth_with_key_re(line), type |-> AUTH_KEY],
       [re |-> failed_login_re(line), type |-> AUTH_FAILED],
       [re |-> sudo_command_re(line), type |-> SUDO_COMMAND] >>

Matching(line) == {k \in 1..4 : PatternOrder(line)[k].re.matched}

\* C13: the classifier returns the event of the first pattern, in the order
\* password-auth, key-auth, failed-login, sudo-command, that matches the line: one
\* event, of the earliest matching kind and with that pattern's date and user, for
\* a line that matches several; no event for a line that matches none.
C13_FirstMatchingPatternWins ==
    cls # NoCls =>
        LET M == Matching(cls.line) IN
        IF M = {}
        THEN ~cls.found /\ cls.event = NoEvent
        ELSE LET first == PatternOrder(cls.line)[CHOOSE k \in M : \A j \in M : k <= j] IN
             /\ cls.found
             /\ cls.event.type = first.type
             /\ cls.event.date = first.re.groups[1]
             /\ cls.event.username = PyStr(first.re.groups[2])

\* a line that holds a failed login and an accepted password is a password login
C13_Witness ==
    /\ cls # NoCls
    /\ Matching(cls.line) = {1, 3}
    /\ cls.found
    /\ cls.event.type = AUTH_PASSWORD

(***************************************************************************)
(* Properties of the scanner on repeated Start-Date lines.                 *)
(***************************************************************************)
\* the Start-Date lines before line k, closed or not
StartsBefore(lines, k) == {j \in 1..k - 1 : IsStartLine(lines[j])}

\* a Start-Date line as the log writes it: the marker, a blank, the date
HasPayload(l) == IsStartLine(l) /\ Len(Split1(l)) = 2

\* C14: a Start-Date line that follows a Start-Date line with no End-Date line
\* between them does not end the run: the scanner is inside a transaction after
\* it, with the second line's date, and every install/remove event emitted carries
\* the date of the most recent Start-Date line before it, never an earlier one.
C14_LatestStartDateWins ==
    /\ \A n \in 1..Len(run.emitted) :
          run.emitted[n].phase = "apt" =>
              LET S == StartsBefore(AptLines, run.emitted[n].k) IN
              /\ S # {}
              /\ run.emitted[n].event.date = Split1(AptLines[Max(S)])[2]
    /\ \A j \in 2..Len(AptLines) :
          (/\ run.pc \in {"apt", "done", "crashed"}
           /\ run.i = j
           /\ HasPayload(AptLines[j - 1]) /\ HasPayload(AptLines[j]))
          => /\ run.pc # "crashed"
             /\ run.start_date = PyStr(Split1(AptLines[j])[2])
             /\ Truthy(run.start_date)

\* two Start-Date lines and an install line: one event, dated by the second line
C14_Witness ==
    /\ run.pc = "done" /\ Len(AptLines) = 3
    /\ AptLines[1] = StartLine("2016-04-07  19:25:28")
    /\ AptLines[2] = StartLine("2016-04-08  11:02:13")
    /\ Len(run.emitted) = 1
    /\ run.emitted[1].event.date = <<"2016-04-08  11:02:13", NL>>
    /\ Len(pg) = 1

(***************************************************************************)
(* Properties of the stored records.                                       *)
(***************************************************************************)
\* the rows before are the first rows after, unchanged and in their places
IsPrefix(before, after) ==
    /\ Len(before) <= Len(after)
    /\ \A i \in 1..Len(before) : after[i] = before[i]

\* C15: the store is append-only.  Every save (stored, duplicate or failed) and
\* every get_events leaves each record already stored as it was and in its place;
\* the stored records only grow.
C15_AppendOnly == [][IsPrefix(pg, pg') /\ IsPrefix(sq.rows, sq'.rows)]_vars

\* a duplicate saved into a table of two records, both still there
C15_Witness ==
    /\ call.op = "save"
    /\ call.pgOutcome = "conflict"
    /\ Len(call.pgBefore) >= 2
    /\ call.pgBefore[1].event_hash = call.pgData[6]
    /\ pg = call.pgBefore

(***************************************************************************)
(* Properties of the run's start.                                          *)
(***************************************************************************)
\* C16: the connection and the schema check come before any line is read.  A run
\* that fails in them ends with no line read and no event handed to save; a run
\* that got past them is ended by no failure on a line or a record.
C16_OnlyConnectFailureAborts ==
    run.pc = "crashed" =>
        /\ run.raised = "OperationalError"
        /\ run.i = 0 /\ run.string_counter = 0
        /\ run.emitted = <<>>

(***************************************************************************)
(* Properties of get_lines.                                                *)
(***************************************************************************)
\* the lines that can be read from the files, in the files' order
RECURSIVE ReadableLines(_)
ReadableLines(logfiles) ==
    IF logfiles = <<>> THEN <<>>
    ELSE Head(logfiles).lines \o ReadableLines(Tail(logfiles))

\* C17: a file that cannot be opened or read through is skipped and the lines of
\* the other files are yielded, in the files' order: no failure of a file ends the
\* iteration, and the loop has been handed every line that can be read when it is
\* over.
C17_UnreadableFileSkipped ==
    /\ run.pc # "crashed"
    /\ run.pc \in {"apt", "done"} => run.yielded = ReadableLines(run.auth_files)

(***************************************************************************)
(* Properties of the scanner across the files of the history log.          *)
(***************************************************************************)
\* the Start-Date and End-Date lines among the first k lines
Markers(lines, k) == {j \in 1..k : IsStartLine(lines[j]) \/ IsEndLine(lines[j])}

\* the lines of the history log's first file
FirstFileLines == Len(get_lines(SubSeq(run.apt_files, 1, 1)).yielded)

\* C18: the open-transaction state is set by Start-Date and End-Date lines only and
\* is not reset where a file ends: after any number of lines it is the date of the
\* last marker read when that is a Start-Date line, and none otherwise, in whatever
\* file that marker stood; an install/remove line of a later file that follows a
\* Start-Date line of an earlier file emits an event with that line's date.
C18_TransactionOpenAcrossFiles ==
    /\ (run.pc \in {"apt", "done"} \/ (run.pc = "crashed" /\ run.raised # "IndexError")) =>
          LET M == Markers(AptLines, run.i) IN
          run.start_date = IF M # {} /\ IsStartLine(AptLines[Max(M)])
                           THEN PyStr(Split1(AptLines[Max(M)])[2])
                           ELSE PyNone
    /\ \A n \in 1..Len(run.emitted) :
          LET k == run.emitted[n].k
              S == StartsBefore(AptLines, k)
          IN  (run.emitted[n].phase = "apt" /\ k > FirstFileLines
                 /\ S # {} /\ Max(S) <= FirstFileLines)
              => run.emitted[n].event.date = Split1(AptLines[Max(S)])[2]

\* the first file ends inside a transaction, the second holds its install line
C18_Witness ==
    /\ run.pc = "done"
    /\ run.apt_files[1].lines = <<StartLine("2016-04-07  19:25:28")>>
    /\ run.apt_files[2].lines = <<CommandLine("install", "fish")>>
    /\ Len(run.emitted) = 1
    /\ run.emitted[1].event = Event(<<"2016-04-07  19:25:28", NL>>, INSTALL_PACKAGE, root,
                                    PyNone, PyStr(<<"fish">>))
    /\ Len(pg) = 1

====
